---- MODULE Spec2Model ----
(***************************************************************************)
(* background_notes: a global key listener that records keystrokes into a  *)
(* note buffer between two presses of F9, and an HTTP surface that reads   *)
(* (GET /state) or clears (POST /clear) the committed notes.  The three    *)
(* fields of NotesState live behind one Mutex.                             *)
(*                                                                         *)
(* A String is modelled as a sequence of characters; a character is a      *)
(* one-element name: the ASCII character itself where the syntax allows    *)
(* it, "LF" for the line break and "U+xxxx" for the other code points.     *)
(*                                                                         *)
(* Two specifications are given.  Spec takes every operation as one        *)
(* step (the whole handler, lock to unlock).  ConcSpec splits the          *)
(* handlers at the statements executed under the Mutex guard and           *)
(* interleaves the listener thread with the HTTP request handlers.         *)
(***************************************************************************)
EXTENDS Integers, Sequences, FiniteSets, TLC

\* ------------------------------------------------------------------ bounds
\* Number of input events the listener delivers in a run of Spec.
MaxEvents == 6
\* Number of input events the listener delivers in a run of ConcSpec.
MaxDelivered == 3
\* Number of concurrent HTTP request handlers in ConcSpec.
NumRequests == 2
\* Number of key presses the listener delivers in a run of KeySpec.
MaxWideEvents == 5
\* Number of input events the listener delivers in a run of FairSpec.
MaxFairDelivered == 3
\* Number of the HTTP request handlers that are used in a run of FairSpec.
NumFairRequests == 1

\* ------------------------------------------------------------ characters
LF == "LF"
SP == " "
UpGlyph == "U+2191"
DownGlyph == "U+2193"
LeftGlyph == "U+2190"
RightGlyph == "U+2192"

\* char::is_whitespace restricted to the characters a note can hold: of the
\* characters pushed by handle_key_event only '\n' and ' ' are White_Space.
is_whitespace(c) == c \in {LF, SP, "U+0009", "U+000D"}

\* str::trim: drop leading and trailing whitespace.
RECURSIVE trim_start(_)
trim_start(str) ==
    IF str = <<>> THEN <<>>
    ELSE IF is_whitespace(Head(str)) THEN trim_start(Tail(str))
    ELSE str

RECURSIVE trim_end(_)
trim_end(str) ==
    IF str = <<>> THEN <<>>
    ELSE IF is_whitespace(str[Len(str)]) THEN trim_end(SubSeq(str, 1, Len(str) - 1))
    ELSE str

trim(str) == trim_end(trim_start(str))

is_empty(str) == Len(str) = 0

\* (variant) the character is inserted at the front
push_front(str, ch) == <<ch>> \o str

\* String::push
push(str, ch) == Append(str, ch)

\* (variant) the first character is removed
pop_first(str) == IF str = <<>> THEN <<>> ELSE Tail(str)

\* String::pop: removes the last char if there is one.
pop(str) == IF str = <<>> THEN <<>> ELSE SubSeq(str, 1, Len(str) - 1)

\* ------------------------------------------------------------------ keys
None == "None"

CharTable ==
    [ KeyA |-> "a", KeyB |-> "b", KeyC |-> "c", KeyD |-> "d", KeyE |-> "e",
      KeyF |-> "f", KeyG |-> "g", KeyH |-> "h", KeyI |-> "i", KeyJ |-> "j",
      KeyK |-> "k", KeyL |-> "l", KeyM |-> "m", KeyN |-> "n", KeyO |-> "o",
      KeyP |-> "p", KeyQ |-> "q", KeyR |-> "r", KeyS |-> "s", KeyT |-> "t",
      KeyU |-> "u", KeyV |-> "v", KeyW |-> "w", KeyX |-> "x", KeyY |-> "y",
      KeyZ |-> "z",
      Num0 |-> "0", Kp0 |-> "0", Num1 |-> "1", Kp1 |-> "1",
      Num2 |-> "2", Kp2 |-> "2", Num3 |-> "3", Kp3 |-> "3",
      Num4 |-> "4", Kp4 |-> "4", Num5 |-> "5", Kp5 |-> "5",
      Num6 |-> "6", Kp6 |-> "6", Num7 |-> "7", Kp7 |-> "7",
      Num8 |-> "8", Kp8 |-> "8", Num9 |-> "9", Kp9 |-> "9",
      Minus |-> "-", Equal |-> "=", LeftBracket |-> "[", RightBracket |-> "]",
      SemiColon |-> ";", Quote |-> "U+0027", BackQuote |-> "U+0060",
      BackSlash |-> "U+005C", Comma |-> ",", Dot |-> ".", Slash |-> "/" ]

\* (variant) the default arm yields a placeholder character
key_to_char_placeholder(key) == IF key \in DOMAIN CharTable THEN CharTable[key] ELSE "?"

\* fn key_to_char(key: Key) -> Option<char>
key_to_char(key) == IF key \in DOMAIN CharTable THEN CharTable[key] ELSE None

\* The keys the listener delivers in the model: the two control keys, the
\* editing keys, an arrow, a letter, a digit with its keypad twin, a
\* punctuation key and a key key_to_char does not map.
Keys == {"F9", "Escape", "Return", "Space", "Backspace", "UpArrow",
         "KeyA", "Num1", "Kp1", "ShiftLeft"}

KeyPress(key) == [type |-> "KeyPress", key |-> key]
KeyRelease(key) == [type |-> "KeyRelease", key |-> key]
MouseMove == [type |-> "MouseMove", key |-> None]

\* rdev::Event as far as handle_key_event looks at it: event.event_type.
Events == {KeyPress(k) : k \in Keys}
            \cup {KeyRelease(k) : k \in {"F9", "Escape", "KeyA"}}
            \cup {MouseMove}

NoEvent == [type |-> "None", key |-> None]

\* ----------------------------------------------------------------- state
VARIABLES
    recording,      \* NotesState.recording
    current_note,   \* NotesState.current_note
    notes,          \* NotesState.notes
    op,             \* the operation the last step of Spec performed
    event,          \* the event handed to handle_key_event
    snapshot,       \* the NotesSnapshot the last get_state returned
    nEvents,        \* number of events the listener has delivered
    toggles,        \* F9 presses delivered since the last Escape press
    typed,          \* characters entered and not deleted since the last start
    cancelled,      \* the characters the last Escape press discarded
    lock,           \* owner of the Mutex: nobody, the listener or a request
    lpc,            \* position of the listener thread in handle_key_event
    note,           \* the local `note` of the F9 arm
    rpc,            \* position of each HTTP request handler
    rop,            \* the route each HTTP request handler serves
    snap,           \* the local `snapshot` of each get_state call
    abs,            \* NotesState after the operations applied so far, each whole
    applied,        \* number of events applied to abs
    completed,      \* number of events whose handling has returned
    callCompleted,  \* per request: `completed` when the call began
    poisoned,       \* the poison flag of the Mutex
    status          \* per request: the HTTP status of the response produced

specVars == <<recording, current_note, notes, op, event, snapshot, nEvents, toggles,
              typed, cancelled>>
concVars == <<lock, lpc, note, rpc, rop, snap, abs, applied, completed, callCompleted,
              poisoned, status>>
vars == <<specVars, concVars>>

\* The HTTP request handlers that run concurrently.
Requests == 1..NumRequests

\* Owners of the Mutex.
Free == <<"free">>
Listener == <<"listener">>
Request(r) == <<"request", r>>

\* struct NotesState, as a value
NotesState == [recording |-> recording, current_note |-> current_note, notes |-> notes]

\* NotesState::default()
Default == [recording |-> FALSE, current_note |-> <<>>, notes |-> <<>>]

NoSnapshot == [recording |-> FALSE, current_note |-> <<>>, notes |-> <<>>]

\* ------------------------------------------- statements of the handlers
\* (variant) the flag is set instead of flipped
FlipRecording_set(s) == [s EXCEPT !.recording = TRUE]

\* s.recording = !s.recording;
FlipRecording(s) == [s EXCEPT !.recording = ~s.recording]

\* (variant) the trimmed text is stored
PushNote_trimmed(s, text) ==
    IF ~is_empty(trim(text)) THEN [s EXCEPT !.notes = Append(@, trim(text))] ELSE s

\* (variant) the emptiness test is made on the untrimmed buffer
PushNote_untrimmedTest(s, text) ==
    IF ~is_empty(text) THEN [s EXCEPT !.notes = Append(@, text)] ELSE s

\* (variant) the note is inserted at the front of the list
PushNote_front(s, text) ==
    IF ~is_empty(trim(text)) THEN [s EXCEPT !.notes = <<text>> \o @] ELSE s

\* (variant) the note is pushed without the test
PushNote_unconditional(s, text) == [s EXCEPT !.notes = Append(@, text)]

\* if !note.trim().is_empty() { s.notes.push(note); }
PushNote(s, text) ==
    IF ~is_empty(trim(text)) THEN [s EXCEPT !.notes = Append(@, text)] ELSE s

\* s.current_note.clear();
ClearCurrent(s) == [s EXCEPT !.current_note = <<>>]

\* s.recording = false;
StopRecording(s) == [s EXCEPT !.recording = FALSE]

\* The inner match of the `_` arm: one edit of the buffer.
EditNote(s, key) ==
    CASE key = "Return"     -> [s EXCEPT !.current_note = push(@, LF)]
      [] key = "Space"      -> [s EXCEPT !.current_note = push(@, SP)]
      [] key = "Backspace"  -> [s EXCEPT !.current_note = pop(@)]
      [] key = "UpArrow"    -> [s EXCEPT !.current_note = push(@, UpGlyph)]
      [] key = "DownArrow"  -> [s EXCEPT !.current_note = push(@, DownGlyph)]
      [] key = "LeftArrow"  -> [s EXCEPT !.current_note = push(@, LeftGlyph)]
      [] key = "RightArrow" -> [s EXCEPT !.current_note = push(@, RightGlyph)]
      [] OTHER ->
            IF key_to_char(key) # None
            THEN [s EXCEPT !.current_note = push(@, key_to_char(key))]
            ELSE s

\* (variant) the buffer is cleared only when a note was pushed
ToggleArm_clearOnCommit(s) ==
    LET s1 == FlipRecording(s) IN
    IF ~s1.recording
    THEN IF ~is_empty(trim(s1.current_note))
         THEN ClearCurrent(PushNote(s1, s1.current_note))
         ELSE s1
    ELSE s1

\* Key::F9 arm
ToggleArm(s) ==
    LET s1 == FlipRecording(s) IN
    IF ~s1.recording
    THEN ClearCurrent(PushNote(s1, s1.current_note))
    ELSE s1

\* (variant) Escape stops like F9 does, committing the buffer
CancelArm_commit(s) ==
    LET s1 == StopRecording(s) IN ClearCurrent(PushNote(s1, s1.current_note))

\* (variant) Escape stops the recording and keeps the buffer
CancelArm_keepBuffer(s) == StopRecording(s)

\* Key::Escape arm
CancelArm(s) == ClearCurrent(StopRecording(s))

\* (variant) the early return on !s.recording is missing
OtherArm_noGuard(s, key) == EditNote(s, key)

\* `_` arm
OtherArm(s, key) == IF ~s.recording THEN s ELSE EditNote(s, key)

\* (variant) key releases are handled like key presses
handle_key_event_anyKeyEvent(s, ev) ==
    IF ev.type \in {"KeyPress", "KeyRelease"}
    THEN CASE ev.key = "F9"     -> ToggleArm(s)
           [] ev.key = "Escape" -> CancelArm(s)
           [] OTHER             -> OtherArm(s, ev.key)
    ELSE s

\* fn handle_key_event(event: Event, state: &SharedState), lock to unlock
handle_key_event(s, ev) ==
    IF ev.type = "KeyPress"
    THEN CASE ev.key = "F9"     -> ToggleArm(s)
           [] ev.key = "Escape" -> CancelArm(s)
           [] OTHER             -> OtherArm(s, ev.key)
    ELSE s

\* (variant) the snapshot is built without the buffer
get_state_noBuffer(s) ==
    [recording |-> s.recording, current_note |-> <<>>, notes |-> s.notes]

\* async fn get_state: the NotesSnapshot built under the lock
get_state(s) ==
    [recording |-> s.recording, current_note |-> s.current_note, notes |-> s.notes]

\* (variant) the whole state is reset
clear_notes_reset(s) == [s EXCEPT !.notes = <<>>, !.current_note = <<>>]

\* async fn clear_notes: s.notes.clear()
clear_notes(s) == [s EXCEPT !.notes = <<>>]

\* F9 presses since the last Escape press, after one more event
CountToggle(n, ev) ==
    IF ev.type = "KeyPress" /\ ev.key = "F9" THEN n + 1
    ELSE IF ev.type = "KeyPress" /\ ev.key = "Escape" THEN 0
    ELSE n

\* The character a key enters into a recording: the line break, the space,
\* the glyph of an arrow, the character of a mapped key; nothing otherwise.
CharsOf(key) ==
    CASE key = "Return"     -> <<LF>>
      [] key = "Space"      -> <<SP>>
      [] key = "UpArrow"    -> <<UpGlyph>>
      [] key = "DownArrow"  -> <<DownGlyph>>
      [] key = "LeftArrow"  -> <<LeftGlyph>>
      [] key = "RightArrow" -> <<RightGlyph>>
      [] OTHER -> IF key \in DOMAIN CharTable THEN <<CharTable[key]>> ELSE <<>>

\* The characters entered and not deleted since the F9 press that started
\* the typed in progress, after one more event; n counts the F9 presses
\* since the last Escape press, so a typed is in progress when n is odd.
TrackTyped(ty, n, ev) ==
    IF ev.type # "KeyPress" THEN ty
    ELSE IF ev.key \in {"F9", "Escape"} THEN <<>>
    ELSE IF n % 2 = 0 THEN ty
    ELSE IF ev.key = "Backspace"
         THEN (IF ty = <<>> THEN <<>> ELSE SubSeq(ty, 1, Len(ty) - 1))
         ELSE ty \o CharsOf(ev.key)

\* The characters the last Escape press discarded, after one more event.
TrackCancelled(canc, ty, ev) ==
    IF ev.type = "KeyPress" /\ ev.key = "Escape" THEN ty ELSE canc

SetState(t) ==
    /\ recording' = t.recording
    /\ current_note' = t.current_note
    /\ notes' = t.notes

\* ------------------------------------------------- Spec: whole operations
Init ==
    /\ recording = Default.recording
    /\ current_note = Default.current_note
    /\ notes = Default.notes
    /\ op = "init"
    /\ event = NoEvent
    /\ snapshot = NoSnapshot
    /\ nEvents = 0
    /\ toggles = 0
    /\ typed = <<>>
    /\ cancelled = <<>>
    /\ lock = Free
    /\ lpc = "listen"
    /\ note = <<>>
    /\ rpc = [r \in Requests |-> "idle"]
    /\ rop = [r \in Requests |-> "none"]
    /\ snap = [r \in Requests |-> NoSnapshot]
    /\ abs = Default
    /\ applied = 0
    /\ completed = 0
    /\ callCompleted = [r \in Requests |-> 0]
    /\ poisoned = FALSE
    /\ status = [r \in Requests |-> "none"]

\* The listener thread delivers one event and handle_key_event runs on it.
HandleKeyEvent ==
    /\ nEvents < MaxEvents
    /\ \E ev \in Events :
        /\ event' = ev
        /\ SetState(handle_key_event(NotesState, ev))
        /\ toggles' = CountToggle(toggles, ev)
        /\ typed' = TrackTyped(typed, toggles, ev)
        /\ cancelled' = TrackCancelled(cancelled, typed, ev)
    /\ op' = "key"
    /\ nEvents' = nEvents + 1
    /\ UNCHANGED <<snapshot, concVars>>

\* GET /state
GetState ==
    /\ snapshot' = get_state(NotesState)
    /\ op' = "get_state"
    /\ UNCHANGED <<recording, current_note, notes, event, nEvents, toggles, concVars>>
    /\ UNCHANGED <<typed, cancelled>>

\* POST /clear
ClearNotes ==
    /\ SetState(clear_notes(NotesState))
    /\ op' = "clear_notes"
    /\ UNCHANGED <<event, snapshot, nEvents, toggles, typed, cancelled, concVars>>

Next == HandleKeyEvent \/ GetState \/ ClearNotes

Spec == Init /\ [][Next]_vars

\* ------------------------------------ KeySpec: key presses of more keys
\* The keys the listener delivers in KeySpec: the control and editing keys,
\* the four arrows, first and last letter, first and last digit with their
\* keypad twins, punctuation keys, and keys key_to_char does not map.
WideKeys ==
    {"F9", "Escape", "Return", "Space", "Backspace",
     "UpArrow", "DownArrow", "LeftArrow", "RightArrow",
     "KeyA", "KeyZ", "Num0", "Kp0", "Num9", "Kp9",
     "Minus", "Quote", "BackQuote", "BackSlash", "Slash",
     "ShiftLeft", "Tab", "F1", "Unknown"}

WideEvents == {KeyPress(k) : k \in WideKeys}

\* The listener thread delivers one key press and handle_key_event runs on it.
HandleWideKeyEvent ==
    /\ nEvents < MaxWideEvents
    /\ \E ev \in WideEvents :
        /\ event' = ev
        /\ SetState(handle_key_event(NotesState, ev))
        /\ toggles' = CountToggle(toggles, ev)
        /\ typed' = TrackTyped(typed, toggles, ev)
        /\ cancelled' = TrackCancelled(cancelled, typed, ev)
    /\ op' = "key"
    /\ nEvents' = nEvents + 1
    /\ UNCHANGED <<snapshot, concVars>>

KeyNext == HandleWideKeyEvent

KeySpec == Init /\ [][KeyNext]_vars

\* ------------------------------------------------ properties of Spec
HasNonWhitespace(str) == \E i \in 1..Len(str) : ~is_whitespace(str[i])

Pressed(key) == op' = "key" /\ event' = KeyPress(key)

\* C1: an F9 press while recording with a buffer holding at least one
\* non-whitespace character ends with recording = false, an empty buffer and
\* notes = old notes plus one last entry equal to the buffer, untrimmed.
C1_ToggleStopCommitsUntrimmed ==
    [][ (Pressed("F9") /\ recording /\ HasNonWhitespace(current_note))
            => /\ recording' = FALSE
               /\ current_note' = <<>>
               /\ notes' = Append(notes, current_note) ]_vars

\* A note with a leading and a trailing blank was committed by the last F9.
C1_Witness ==
    /\ op = "key" /\ event = KeyPress("F9")
    /\ ~recording /\ current_note = <<>>
    /\ notes # <<>>
    /\ LET n == notes[Len(notes)] IN
          /\ Len(n) >= 3
          /\ is_whitespace(n[1])
          /\ is_whitespace(n[Len(n)])
          /\ HasNonWhitespace(n)

\* C2: an F9 press while recording with an empty or all-whitespace buffer
\* leaves notes unchanged, empties the buffer and stops recording.
C2_ToggleStopDiscardsBlank ==
    [][ (Pressed("F9") /\ recording /\ ~HasNonWhitespace(current_note))
            => /\ notes' = notes
               /\ current_note' = <<>>
               /\ recording' = FALSE ]_vars

\* The snapshot shows a recording with a two-blank buffer; the very next
\* event was the F9 that stopped it, and no note was added.
C2_Witness ==
    /\ op = "key" /\ event = KeyPress("F9")
    /\ snapshot.recording
    /\ Len(snapshot.current_note) = 2
    /\ ~HasNonWhitespace(snapshot.current_note)
    /\ nEvents = 4
    /\ ~recording /\ current_note = <<>>
    /\ notes = snapshot.notes

\* C3: an Escape press from any state ends with recording = false and an
\* empty buffer and leaves notes unchanged; a second Escape applied to the
\* resulting state yields that same state.
C3_CancelDiscards ==
    [][ Pressed("Escape")
            => /\ recording' = FALSE
               /\ current_note' = <<>>
               /\ notes' = notes
               /\ handle_key_event(NotesState', KeyPress("Escape")) = NotesState' ]_vars

\* The snapshot shows a recording with a non-empty buffer of three
\* characters; the next event was Escape and nothing was committed.
C3_Witness ==
    /\ op = "key" /\ event = KeyPress("Escape")
    /\ snapshot.recording
    /\ Len(snapshot.current_note) = 3
    /\ HasNonWhitespace(snapshot.current_note)
    /\ nEvents = 5
    /\ ~recording /\ current_note = <<>>
    /\ notes = snapshot.notes

\* C4: clear_notes empties notes and leaves recording and current_note as
\* they were, in every state, a recording in progress included.
C4_ClearNotesFrame ==
    [][ op' = "clear_notes"
            => /\ notes' = <<>>
               /\ recording' = recording
               /\ current_note' = current_note ]_vars

\* A note had been committed and a second recording was in progress (as the
\* snapshot shows) when notes were cleared; the F9 that followed committed
\* the buffer, which is now the only note.
C4_Witness ==
    /\ snapshot.recording
    /\ snapshot.notes # <<>>
    /\ snapshot.current_note # <<>>
    /\ op = "key" /\ event = KeyPress("F9")
    /\ ~recording
    /\ notes = <<snapshot.current_note>>
    /\ nEvents = 6

\* C7: between complete operations, recording = false implies an empty buffer.
C7_IdleBufferEmpty == ~recording => current_note = <<>>

\* A recording with a non-empty buffer (seen by the snapshot) has ended.
C7_Witness ==
    /\ snapshot.recording
    /\ snapshot.current_note # <<>>
    /\ ~recording
    /\ current_note = <<>>
    /\ op = "key"
    /\ event \in {KeyPress("F9"), KeyPress("Escape")}

\* C8: while recording is false, a press of a key other than F9 and Escape
\* leaves recording, current_note and notes unchanged.
C8_DroppedWhenIdle ==
    [][ (op' = "key" /\ event'.type = "KeyPress"
            /\ event'.key \notin {"F9", "Escape"} /\ ~recording)
            => UNCHANGED <<recording, current_note, notes>> ]_vars

\* A letter key was pressed after a recording had been committed.
C8_Witness ==
    /\ op = "key" /\ event = KeyPress("KeyA")
    /\ ~recording
    /\ current_note = <<>>
    /\ Len(notes) = 1

\* C9: every step leaves notes as it was, or appends exactly one entry at the
\* end (only an F9 press that stops a recording), or empties it (only
\* clear_notes).
C9_NotesAppendOnly ==
    [][ \/ notes' = notes
        \/ /\ Len(notes') = Len(notes) + 1
           /\ SubSeq(notes', 1, Len(notes)) = notes
           /\ Pressed("F9") /\ recording /\ ~recording'
        \/ /\ notes' = <<>>
           /\ op' = "clear_notes" ]_vars

\* Two different notes were committed, the older first.
C9_Witness ==
    /\ Len(notes) = 2
    /\ notes[1] = <<"a">>
    /\ notes[2] = <<"1">>

\* C10: recording is true exactly when the number of F9 presses since the
\* last Escape press is odd, and only an F9 or Escape press changes it.
C10_RecordingIsToggleParity ==
    [][ /\ recording' <=> (toggles' % 2 = 1)
        /\ recording' # recording
              => /\ op' = "key"
                 /\ event'.type = "KeyPress"
                 /\ event'.key \in {"F9", "Escape"} ]_vars

\* Three F9 presses since the last Escape, one before it: recording is on.
C10_Witness ==
    /\ recording
    /\ toggles = 3
    /\ nEvents = 5

\* ------------------------------------------ further properties of Spec
\* The keys that enter a character: Return, Space, the arrows, the mapped keys.
AppendingKeys ==
    {"Return", "Space", "UpArrow", "DownArrow", "LeftArrow", "RightArrow"}
        \cup DOMAIN CharTable

\* Keys of rdev's enumeration outside all the sets the handler names.
UnmappedKeys ==
    {"ShiftLeft", "ShiftRight", "ControlLeft", "Alt", "Tab", "CapsLock",
     "Delete", "Home", "F1", "F10", "KpReturn", "KpMinus", "Unknown"}

\* C13: a note is appended only by an F9 press, and it is the sequence of the
\* characters entered and not deleted since the F9 press that started the
\* session; an Escape press appends nothing, so what was typed in a cancelled
\* session, before the start or while not recording is never committed.
C13_OnlySessionCommitted ==
    [][ /\ (notes' # notes /\ notes' # <<>>)
              => /\ Pressed("F9")
                 /\ notes' = Append(notes, typed)
        /\ Pressed("Escape") => notes' = notes ]_vars

\* A session in which "a" was typed was cancelled; the next session typed
\* "1" and its stop committed "1" alone.
C13_Witness ==
    /\ op = "key" /\ event = KeyPress("F9")
    /\ cancelled = <<"a">>
    /\ notes = << <<"1">> >>
    /\ ~recording

\* C14: an event that is not a key press (a key release, a mouse event)
\* leaves recording, current_note and notes unchanged.
C14_OnlyPressesApplied ==
    [][ (op' = "key" /\ event'.type # "KeyPress")
            => UNCHANGED <<recording, current_note, notes>> ]_vars

\* F9 was released during a recording with a non-empty buffer, which goes on.
C14_Witness ==
    /\ op = "key" /\ event = KeyRelease("F9")
    /\ recording
    /\ toggles = 1
    /\ current_note # <<>>

C16_BackspaceRemovesLast ==
    [][ (Pressed("Backspace") /\ recording)
            => /\ current_note # <<>>
                    => current_note' = SubSeq(current_note, 1, Len(current_note) - 1)
               /\ current_note = <<>> => current_note' = <<>>
               /\ UNCHANGED <<recording, notes>> ]_vars

\* The snapshot shows the buffer "a" + up-arrow glyph; the next event was a
\* Backspace, which left "a".
C16_Witness ==
    /\ op = "key" /\ event = KeyPress("Backspace")
    /\ snapshot.recording
    /\ snapshot.current_note = <<"a", UpGlyph>>
    /\ nEvents = 4
    /\ recording
    /\ current_note = <<"a">>

\* C17: a key outside all the defined sets has no character (key_to_char
\* yields None) and pressing it while recording changes nothing.
C17_UnmappedIgnored ==
    [][ /\ (op' = "key" /\ event'.type = "KeyPress"
                /\ event'.key \in UnmappedKeys /\ recording)
              => /\ key_to_char(event'.key) = None
                 /\ UNCHANGED <<recording, current_note, notes>>
        /\ (recording /\ current_note = <<>>)
              => \A k \in UnmappedKeys :
                    /\ key_to_char(k) = None
                    /\ handle_key_event(NotesState, KeyPress(k)) = NotesState ]_vars

\* F1 was pressed during a recording whose buffer held two characters.
C17_Witness ==
    /\ op = "key" /\ event = KeyPress("F1")
    /\ recording
    /\ Len(current_note) = 2
    /\ nEvents = 4

\* C19: every entry of notes holds at least one non-whitespace character.
C19_NoBlankNote ==
    \A i \in 1..Len(notes) : HasNonWhitespace(notes[i])

\* With a note committed, a second recording held only blanks (as the
\* snapshot shows); the F9 that stopped it added nothing.
C19_Witness ==
    /\ op = "key" /\ event = KeyPress("F9")
    /\ snapshot.recording
    /\ snapshot.current_note # <<>>
    /\ ~HasNonWhitespace(snapshot.current_note)
    /\ snapshot.notes # <<>>
    /\ nEvents = 6
    /\ ~recording
    /\ notes = snapshot.notes

\* ------------------------------- ConcSpec: statements under the Mutex
\* (variant) lock() returns without waiting for the holder
Acquire_noWait(who) == lock' = who

\* state.lock().unwrap(): blocks until the Mutex is free, then owns it
Acquire(who) == lock = Free /\ lock' = who

\* the MutexGuard goes out of scope
Release(who) == lock = who /\ lock' = Free

\* The events the listener delivers in ConcSpec.
ConcEvents == {KeyPress(k) : k \in {"F9", "Escape", "KeyA", "Space", "Backspace"}}
                \cup {KeyRelease("F9")}

unusedSpec == <<op, snapshot, toggles, typed, cancelled>>

\* rdev calls the callback with a KeyPress event: line 83 matches.
ListenPress ==
    /\ lpc = "listen"
    /\ nEvents < MaxDelivered
    /\ \E ev \in ConcEvents :
        /\ ev.type = "KeyPress"
        /\ event' = ev
    /\ nEvents' = nEvents + 1
    /\ lpc' = "lock"
    /\ UNCHANGED <<recording, current_note, notes, unusedSpec>>
    /\ UNCHANGED <<lock, note, rpc, rop, snap, abs, applied, completed, callCompleted>>
    /\ UNCHANGED <<poisoned, status>>

\* rdev calls the callback with another event: `if let` fails, the callback
\* returns without locking.
ListenOther ==
    /\ lpc = "listen"
    /\ nEvents < MaxDelivered
    /\ \E ev \in ConcEvents :
        /\ ev.type # "KeyPress"
        /\ event' = ev
        /\ abs' = handle_key_event(abs, ev)
    /\ nEvents' = nEvents + 1
    /\ applied' = applied + 1
    /\ completed' = completed + 1
    /\ UNCHANGED <<recording, current_note, notes, unusedSpec>>
    /\ UNCHANGED <<lock, lpc, note, rpc, rop, snap, callCompleted, poisoned, status>>

\* let mut s = state.lock().unwrap();
\* lock() returns Err on a poisoned Mutex and unwrap() panics: the callback
\* unwinds, the guard inside the error is dropped.
KeyLock ==
    /\ lpc = "lock"
    /\ IF poisoned
       THEN /\ lock = Free
            /\ lpc' = "panicked"
            /\ UNCHANGED <<lock, abs, applied>>
       ELSE /\ Acquire(Listener)
            /\ lpc' = "match"
            /\ abs' = handle_key_event(abs, event)
            /\ applied' = applied + 1
    /\ UNCHANGED <<specVars, note, rpc, rop, snap, completed, callCompleted>>
    /\ UNCHANGED <<poisoned, status>>

listenerFrame == <<op, event, snapshot, nEvents, toggles, typed, cancelled,
                   lock, rpc, rop, snap,
                   abs, applied, completed, callCompleted, poisoned, status>>

\* (variant) the guard covers the flip only: it is dropped before the
\* `if !s.recording` block runs
KeyF9Flip_dropsGuard ==
    /\ lpc = "match"
    /\ event.key = "F9"
    /\ SetState(FlipRecording(NotesState))
    /\ lpc' = IF ~recording' THEN "f9_clone" ELSE "unlock"
    /\ lock' = IF ~recording' THEN Free ELSE lock
    /\ UNCHANGED <<op, event, snapshot, nEvents, toggles, typed, cancelled, rpc, rop, snap,
                   abs, applied, completed, callCompleted, poisoned, status, note>>

\* Key::F9 => s.recording = !s.recording; if !s.recording
KeyF9Flip ==
    /\ lpc = "match"
    /\ event.key = "F9"
    /\ SetState(FlipRecording(NotesState))
    /\ lpc' = IF ~recording' THEN "f9_clone" ELSE "unlock"
    /\ UNCHANGED <<listenerFrame, note>>

\* let note = s.current_note.clone();
KeyF9Clone ==
    /\ lpc = "f9_clone"
    /\ note' = current_note
    /\ lpc' = "f9_push"
    /\ UNCHANGED <<listenerFrame, recording, current_note, notes>>

\* if !note.trim().is_empty() { s.notes.push(note); }
KeyF9Push ==
    /\ lpc = "f9_push"
    /\ SetState(PushNote(NotesState, note))
    /\ lpc' = "f9_clear"
    /\ UNCHANGED <<listenerFrame, note>>

\* s.current_note.clear();   (F9 arm)
KeyF9Clear ==
    /\ lpc = "f9_clear"
    /\ SetState(ClearCurrent(NotesState))
    /\ lpc' = "unlock"
    /\ UNCHANGED <<listenerFrame, note>>

\* Key::Escape => s.recording = false;
KeyEscapeStop ==
    /\ lpc = "match"
    /\ event.key = "Escape"
    /\ SetState(StopRecording(NotesState))
    /\ lpc' = "esc_clear"
    /\ UNCHANGED <<listenerFrame, note>>

\* s.current_note.clear();   (Escape arm)
KeyEscapeClear ==
    /\ lpc = "esc_clear"
    /\ SetState(ClearCurrent(NotesState))
    /\ lpc' = "unlock"
    /\ UNCHANGED <<listenerFrame, note>>

\* (variant) the early return leaves without giving the Mutex back (the
\* guard is leaked on that path)
KeyOther_leaksGuard ==
    /\ lpc = "match"
    /\ event.key \notin {"F9", "Escape"}
    /\ IF ~recording
       THEN /\ lpc' = "listen"
            /\ completed' = completed + 1
            /\ UNCHANGED <<recording, current_note, notes>>
       ELSE /\ SetState(OtherArm(NotesState, event.key))
            /\ lpc' = "unlock"
            /\ UNCHANGED completed
    /\ UNCHANGED <<op, event, snapshot, nEvents, toggles, typed, cancelled, lock, rpc, rop, snap,
                   abs, applied, callCompleted, poisoned, status, note>>

\* (variant) Backspace is `s.current_note.pop().unwrap()`: it panics on an
\* empty buffer while the guard is held, which poisons the Mutex
KeyOther_unwrapPop ==
    /\ lpc = "match"
    /\ event.key \notin {"F9", "Escape"}
    /\ IF recording /\ event.key = "Backspace" /\ current_note = <<>>
       THEN /\ poisoned' = TRUE
            /\ lock' = Free
            /\ lpc' = "panicked"
            /\ UNCHANGED <<recording, current_note, notes>>
       ELSE /\ SetState(OtherArm(NotesState, event.key))
            /\ lpc' = "unlock"
            /\ UNCHANGED <<poisoned, lock>>
    /\ UNCHANGED <<op, event, snapshot, nEvents, toggles, typed, cancelled, rpc, rop, snap,
                   abs, applied, completed, callCompleted, status, note>>

\* _ => { if !s.recording { return; } match key { ... } }
KeyOther ==
    /\ lpc = "match"
    /\ event.key \notin {"F9", "Escape"}
    /\ SetState(OtherArm(NotesState, event.key))
    /\ lpc' = "unlock"
    /\ UNCHANGED <<listenerFrame, note>>

\* handle_key_event returns: the guard `s` and the local `note` are dropped.
KeyUnlock ==
    /\ lpc = "unlock"
    /\ Release(Listener)
    /\ lpc' = "listen"
    /\ note' = <<>>
    /\ completed' = completed + 1
    /\ UNCHANGED <<specVars, rpc, rop, snap, abs, applied, callCompleted, poisoned, status>>

\* axum dispatches a request to get_state or clear_notes.
Call(r) ==
    /\ rpc[r] = "idle"
    /\ \E route \in {"get_state", "clear_notes"} :
        rop' = [rop EXCEPT ![r] = route]
    /\ rpc' = [rpc EXCEPT ![r] = "lock"]
    /\ callCompleted' = [callCompleted EXCEPT ![r] = completed]
    /\ UNCHANGED <<specVars, lock, lpc, note, snap, abs, applied, completed, poisoned, status>>

\* let s = state.lock().unwrap();   (lines 63 and 73)
\* On a poisoned Mutex unwrap() panics: the handler's task unwinds and no
\* response is produced.
ReqLock(r) ==
    /\ rpc[r] = "lock"
    /\ IF poisoned
       THEN /\ lock = Free
            /\ rpc' = [rpc EXCEPT ![r] = "panicked"]
            /\ UNCHANGED <<lock, abs>>
       ELSE /\ Acquire(Request(r))
            /\ rpc' = [rpc EXCEPT ![r] = "body"]
            /\ abs' = IF rop[r] = "clear_notes" THEN clear_notes(abs) ELSE abs
    /\ UNCHANGED <<specVars, lpc, note, rop, snap, applied, completed, callCompleted>>
    /\ UNCHANGED <<poisoned, status>>

\* let snapshot = NotesSnapshot { ... };
GetStateCopy(r) ==
    /\ rpc[r] = "body"
    /\ rop[r] = "get_state"
    /\ snap' = [snap EXCEPT ![r] = get_state(NotesState)]
    /\ rpc' = [rpc EXCEPT ![r] = "return"]
    /\ UNCHANGED <<specVars, lock, lpc, note, rop, abs, applied, completed, callCompleted>>
    /\ UNCHANGED <<poisoned, status>>

\* s.notes.clear();
ClearNotesClear(r) ==
    /\ rpc[r] = "body"
    /\ rop[r] = "clear_notes"
    /\ SetState(clear_notes(NotesState))
    /\ rpc' = [rpc EXCEPT ![r] = "return"]
    /\ UNCHANGED <<op, event, snapshot, nEvents, toggles, typed, cancelled>>
    /\ UNCHANGED <<lock, lpc, note, rop, snap, abs, applied, completed, callCompleted>>
    /\ UNCHANGED <<poisoned, status>>

\* The status of the value a handler returns: Json(snapshot) is 200 OK,
\* StatusCode::NO_CONTENT is 204.
StatusOf(route) == IF route = "get_state" THEN "200" ELSE "204"

\* Json(snapshot) / StatusCode::NO_CONTENT: the handler returns its value and
\* the guard `s` is dropped; the snapshot moves into the response.
Return(r) ==
    /\ rpc[r] = "return"
    /\ Release(Request(r))
    /\ rpc' = [rpc EXCEPT ![r] = "respond"]
    /\ status' = [status EXCEPT ![r] = StatusOf(rop[r])]
    /\ callCompleted' = [callCompleted EXCEPT ![r] = 0]
    /\ UNCHANGED <<specVars, lpc, note, rop, snap, abs, applied, completed, poisoned>>

\* axum writes the response the handler returned; the Mutex is not held.
Respond(r) ==
    /\ rpc[r] = "respond"
    /\ rpc' = [rpc EXCEPT ![r] = "idle"]
    /\ rop' = [rop EXCEPT ![r] = "none"]
    /\ snap' = [snap EXCEPT ![r] = NoSnapshot]
    /\ status' = [status EXCEPT ![r] = "none"]
    /\ UNCHANGED <<specVars, lock, lpc, note, abs, applied, completed, callCompleted,
                   poisoned>>

ConcNext ==
    \/ ListenPress
    \/ ListenOther
    \/ KeyLock
    \/ KeyF9Flip
    \/ KeyF9Clone
    \/ KeyF9Push
    \/ KeyF9Clear
    \/ KeyEscapeStop
    \/ KeyEscapeClear
    \/ KeyOther
    \/ KeyUnlock
    \/ \E r \in Requests : Call(r)
    \/ \E r \in Requests : ReqLock(r)
    \/ \E r \in Requests : GetStateCopy(r)
    \/ \E r \in Requests : ClearNotesClear(r)
    \/ \E r \in Requests : Return(r)
    \/ \E r \in Requests : Respond(r)

ConcSpec == Init /\ [][ConcNext]_vars

\* The request handlers that run in FairSpec.
FairRequests == 1..NumFairRequests

\* The next statement of the listener thread once it owns the Mutex.
ListenerStep ==
    \/ KeyF9Flip
    \/ KeyF9Clone
    \/ KeyF9Push
    \/ KeyF9Clear
    \/ KeyEscapeStop
    \/ KeyEscapeClear
    \/ KeyOther
    \/ KeyUnlock

\* The next statement of a request handler once it owns the Mutex, and the
\* writing of its response.
RequestStep(r) ==
    \/ GetStateCopy(r)
    \/ ClearNotesClear(r)
    \/ Return(r)
    \/ Respond(r)

\* Fair scheduling: a thread that can execute its next statement executes
\* it, and a thread waiting in lock() gets the Mutex if it is free again and
\* again.  Nothing obliges the environment to press a key or to send a
\* request.
Fairness ==
    /\ SF_vars(KeyLock)
    /\ WF_vars(ListenerStep)
    /\ \A r \in FairRequests :
          /\ SF_vars(ReqLock(r))
          /\ WF_vars(RequestStep(r))

\* The steps of ConcSpec, with fewer events and request handlers.
FairNext ==
    \/ nEvents < MaxFairDelivered /\ ListenPress
    \/ nEvents < MaxFairDelivered /\ ListenOther
    \/ KeyLock
    \/ ListenerStep
    \/ \E r \in FairRequests : Call(r)
    \/ \E r \in FairRequests : ReqLock(r)
    \/ \E r \in FairRequests : RequestStep(r)

FairSpec == Init /\ [][FairNext]_vars /\ Fairness

\* ------------------------------------------------ properties of ConcSpec
\* C5: whenever the Mutex is free the shared state equals the state obtained
\* by applying the operations whole, one after the other, the key events in
\* the order of their delivery (the n-th event applied is the n-th
\* delivered); so every operation starts from a fully applied state.
C5_Serialized ==
    /\ lock = Free => NotesState = abs
    /\ completed <= applied /\ applied <= nEvents
    /\ lock = Listener => applied = nEvents /\ completed = nEvents - 1
    /\ lpc = "listen" => applied = nEvents /\ completed = nEvents
    /\ lpc = "lock" => applied = nEvents - 1

\* The listener is between the push and the clear of a stopping F9 while two
\* requests, a read and a clear, wait for the Mutex.
C5_Witness ==
    /\ lock = Listener
    /\ lpc = "f9_clear"
    /\ notes # <<>>
    /\ current_note # <<>>
    /\ \E r1, r2 \in Requests :
          /\ rpc[r1] = "lock" /\ rop[r1] = "get_state"
          /\ rpc[r2] = "lock" /\ rop[r2] = "clear_notes"

\* C6: the snapshot a get_state call is about to return is the state after
\* the first `applied` key events (with the clears made so far), where
\* every event completed before the call began is among them and none of
\* them is an event not yet begun.
C6_SnapshotRealTime ==
    \A r \in Requests :
        (rpc[r] = "return" /\ rop[r] = "get_state")
            => /\ snap[r] = abs
               /\ callCompleted[r] <= applied
               /\ applied <= nEvents

\* A get_state call began after two events had completed, waited while the
\* listener handled the third (the F9 that commits), and its snapshot holds
\* the committed note.
C6_Witness ==
    \E r \in Requests :
        /\ rpc[r] = "return" /\ rop[r] = "get_state"
        /\ callCompleted[r] = 2
        /\ applied = 3
        /\ snap[r].notes # <<>>
        /\ ~snap[r].recording

\* C12: no operation fails: the Mutex is never poisoned, neither the listener
\* nor a request handler panics, every get_state produces its snapshot with
\* 200 and every clear_notes produces 204.
C12_NoOperationFails ==
    /\ ~poisoned
    /\ lpc # "panicked"
    /\ \A r \in Requests :
          /\ rpc[r] # "panicked"
          /\ rpc[r] # "respond" => status[r] = "none"
          /\ (rpc[r] = "respond" /\ rop[r] = "get_state")
                => /\ status[r] = "200"
                   /\ DOMAIN snap[r] = {"recording", "current_note", "notes"}
          /\ (rpc[r] = "respond" /\ rop[r] = "clear_notes") => status[r] = "204"

\* The listener has handled a Backspace on the empty buffer of a recording,
\* and a read and a clear have both produced their responses.
C12_Witness ==
    /\ event = KeyPress("Backspace")
    /\ lpc = "listen"
    /\ completed = nEvents
    /\ recording
    /\ current_note = <<>>
    /\ \E r1, r2 \in Requests :
          /\ rpc[r1] = "respond" /\ status[r1] = "200"
          /\ rpc[r2] = "respond" /\ status[r2] = "204"

SnapshotHeld(r) == rpc[r] \in {"return", "respond"} /\ rop[r] = "get_state"

\* C18: a snapshot is the copy of the three fields at one instant under the
\* lock; it never shows recording = false with a non-empty buffer, nor a
\* buffer that is already the last note of a stopped recording; and no step
\* of the listener or of another request changes it once taken.
C18_SnapshotConsistent ==
    [][ \A r \in Requests :
          /\ (rpc'[r] = "return" /\ rop'[r] = "get_state") => snap'[r] = NotesState'
          /\ SnapshotHeld(r)'
                => /\ ~snap'[r].recording => snap'[r].current_note = <<>>
                   /\ ~ /\ ~snap'[r].recording
                        /\ snap'[r].current_note # <<>>
                        /\ snap'[r].notes # <<>>
                        /\ snap'[r].notes[Len(snap'[r].notes)] = snap'[r].current_note
          /\ (SnapshotHeld(r) /\ SnapshotHeld(r)') => snap'[r] = snap[r] ]_vars

\* A snapshot of a recording in progress is being written out while the
\* listener is between the push and the clear of the F9 that stops the
\* recording, and another get_state waits for the Mutex.
C18_Witness ==
    \E r1, r2 \in Requests :
        /\ rpc[r1] = "respond" /\ rop[r1] = "get_state"
        /\ snap[r1].recording
        /\ snap[r1].current_note # <<>>
        /\ snap[r1].notes = <<>>
        /\ lpc = "f9_clear"
        /\ ~recording
        /\ notes = <<current_note>>
        /\ rpc[r2] = "lock" /\ rop[r2] = "get_state"

====
